---- MODULE Spec2Model ----
(***************************************************************************)
(* Model of bevy-save-manager: the save-slot manager of src/src/save.rs    *)
(* (systems load, load_recent, save, delete and the EncryptSave trait) and *)
(* the startup half of the settings store of src/src/setting.rs.           *)
(*                                                                         *)
(* The four Update systems all take ResMut<CurrentSave>, so the scheduler  *)
(* never runs two of them at once; the only concurrent activity is the     *)
(* detached IoTaskPool task spawned by save_to.  A system is modelled as   *)
(* the loop it is: one step per message of its batch (pc says which loop   *)
(* is running), and the steps of the background tasks interleave with the  *)
(* iterations, as they do on the task pool.  load_recent has no loop and   *)
(* is a single step.                                                       *)
(***************************************************************************)
EXTENDS Integers, Sequences, FiniteSets, TLC

\* ---------------------------------------------------------------- bounds
\* width of a slot id in the model (u32 in the source)
IdBits == 3
\* largest slot id the host puts in a request
MaxReqId == 3
\* number of requests the host sends in one run
MaxReq == 2
\* number of distinct file names random_string() can return
MaxNames == 3

RECURSIVE Pow2(_)
Pow2(n) == IF n = 0 THEN 1 ELSE 2 * Pow2(n - 1)

U32Mod == Pow2(IdBits)
ReqIds == 0..MaxReqId
Names == 1..MaxNames
\* the application save state T: its default (0) and one other value; the
\* systems never look inside it, they only encode and decode it
DataVals == {0, 1}
\* save_dir is a PathBuf: empty by default, anything the config file says
Dirs == {"", "d"}

\* ------------------------------------------------------- paths and bytes
\* PathBuf::join: the file name below the directory
Join(dir, name) == <<dir, name>>
\* Path the bare stored name denotes when it is used without save_dir
Bare(name) == <<"", name>>
Paths == Dirs \X Names

NoFile == -1
\* a created (truncated) or partially written file: nothing decodes from it
Truncated == 0
\* encrypt(bincode(d)): a blob from which d can be recovered
Encode(d) == d + 1
Decodable(b) == b >= 1
Decode(b) == b - 1

\* random_string() + ".dat": any name of the charset
random_string == Names

\* ------------------------------------------------------------- the state
VARIABLES
  saves,         \* SaveConfig.saves: slot id -> stored file name
  save_dir,      \* SaveConfig.save_dir
  last_saved,    \* SaveConfig.last_saved
  current_save,  \* CurrentSave.0
  data,          \* the application save state resource T
  fs,            \* the file system: path -> bytes or NoFile
  tasks,         \* detached IoTaskPool write tasks, in dispatch order
  saveQ,         \* unread SaveGame messages
  loadQ,         \* unread LoadGame messages
  deleteQ,       \* unread DeleteSave messages
  recentQ,       \* TRUE when a LoadRecent message is unread
  changed,       \* GameSettingChanged messages written
  loaded,        \* GameSettingLoaded messages written
  cfgFile,       \* content of the settings file of SaveConfig
  pc,            \* "startup", "idle", the system whose loop is running, or
                 \* "panicked" once a system has panicked
  sent,          \* history: requests sent by the host
  ev,            \* history: the last step, its inputs and the state before it
  allocated,     \* history: slot ids allocated by Save(0), in order
  removed        \* history: number of table entries removed by Delete

vars == <<saves, save_dir, last_saved, current_save, data, fs, tasks, saveQ,
          loadQ, deleteQ, recentQ, changed, loaded, cfgFile, pc, sent, ev,
          allocated, removed>>

EmptySaves == [k \in {} |-> 1]

SetMax(S) == CHOOSE m \in S : \A x \in S : x <= m

\* SaveConfig::default()
DefaultConfig == [saves |-> EmptySaves, save_dir |-> "", last_saved |-> 0]

\* a table a previous run has persisted: two slots, each with its own file
PriorSaves == [k \in {1, 2} |-> k]

\* what the settings file can hold at startup: nothing, something that does
\* not parse, a file that only sets the directory, or a record a previous run
\* wrote (with either directory; save_config runs only after a Save(0), so
\* such a record has slots)
CfgFiles ==
  {[kind |-> k, config |-> DefaultConfig] : k \in {"missing", "garbage"}} \cup
  {[kind |-> "valid",
    config |-> [saves |-> EmptySaves, save_dir |-> "d", last_saved |-> 0]]} \cup
  {[kind |-> "valid",
    config |-> [saves |-> PriorSaves, save_dir |-> d, last_saved |-> 2]] : d \in Dirs}

\* the save files the previous run left for the slots of its record
PriorDisk(file) ==
  [p \in Paths |->
     IF /\ file.kind = "valid"
        /\ \E k \in DOMAIN file.config.saves :
             p = Join(file.config.save_dir, file.config.saves[k])
       THEN Encode(p[2] % 2)
       ELSE NoFile]

\* the table the run starts from, once load_config has run
StartSaves == IF cfgFile.kind = "valid" THEN cfgFile.config.saves ELSE EmptySaves

Snapshot == [saves |-> saves, last_saved |-> last_saved,
             current_save |-> current_save, data |-> data,
             changed |-> changed, tasks |-> tasks, fs |-> fs,
             saveQ |-> saveQ, loadQ |-> loadQ, deleteQ |-> deleteQ]

NoPre == [saves |-> EmptySaves, last_saved |-> 0, current_save |-> 0,
          data |-> 0, changed |-> 0, tasks |-> <<>>,
          fs |-> [p \in Paths |-> NoFile],
          saveQ |-> <<>>, loadQ |-> <<>>, deleteQ |-> <<>>]
\* a write task as save_to spawns it: the path and bytes it owns, how far it
\* has got, and as history the slot it serves, whether its request changed the
\* table or a pointer, and the bytes of a write dispatched after it for the
\* same slot and path that has already completed
Task(path, bytes, slot, moved) ==
  [path |-> path, bytes |-> bytes, st |-> "spawned", slot |-> slot,
   moved |-> moved, newer |-> <<>>]

NoTask == [path |-> <<"", 0>>, bytes |-> NoFile, st |-> "none", slot |-> 0,
           moved |-> FALSE, newer |-> <<>>]
NoEv == [op |-> "none", id |-> 0, name |-> 0, good |-> TRUE,
         taskMoved |-> FALSE, task |-> NoTask, pre |-> NoPre]

\* the state after EncryptSavePlugin::build, for a settings file of files
InitFrom(files) ==
  /\ cfgFile \in files
  /\ saves = DefaultConfig.saves
  /\ save_dir = DefaultConfig.save_dir
  /\ last_saved = DefaultConfig.last_saved
  /\ current_save = 0
  /\ data = 0
  /\ fs = PriorDisk(cfgFile)
  /\ tasks = <<>>
  /\ saveQ = <<>>
  /\ loadQ = <<>>
  /\ deleteQ = <<>>
  /\ recentQ = FALSE
  /\ changed = 0
  /\ loaded = 0
  /\ pc = "startup"
  /\ sent = 0
  /\ ev = NoEv
  /\ allocated = <<>>
  /\ removed = 0

Init == InitFrom(CfgFiles)

\* ------------------------------------------------------ settings at startup
\* load_from that reports Ok when the file is missing or does not parse
ConfigLoadFromAlwaysOk(file) == [ok |-> TRUE, config |-> file.config]

\* GameSetting::load_from: open the file and parse it into *self
ConfigLoadFrom(file) ==
  IF file.kind \in {"missing", "garbage"}
    THEN [ok |-> FALSE, config |-> DefaultConfig]
    ELSE [ok |-> TRUE, config |-> file.config]

\* the Startup system load_config::<SaveConfig>
load_config ==
  /\ pc = "startup"
  /\ LET r == ConfigLoadFrom(cfgFile) IN
       /\ saves' = IF r.ok THEN r.config.saves ELSE saves
       /\ save_dir' = IF r.ok THEN r.config.save_dir ELSE save_dir
       /\ last_saved' = IF r.ok THEN r.config.last_saved ELSE last_saved
       /\ loaded' = IF r.ok THEN loaded + 1 ELSE loaded
  /\ pc' = "idle"
  /\ ev' = NoEv
  /\ UNCHANGED <<current_save, data, fs, tasks, saveQ, loadQ, deleteQ, recentQ,
                 changed, cfgFile, sent, allocated, removed>>

\* ------------------------------------------------------------ the host
\* the application writes a message; MessageWriter conflicts with the
\* reader of the same message type, so never while that system's loop runs
SendSave(id) ==
  /\ pc = "idle" /\ sent < MaxReq
  /\ saveQ' = Append(saveQ, id)
  /\ sent' = sent + 1
  /\ ev' = NoEv
  /\ UNCHANGED <<saves, save_dir, last_saved, current_save, data, fs, tasks,
                 loadQ, deleteQ, recentQ, changed, loaded, cfgFile, pc,
                 allocated, removed>>

SendLoad(id) ==
  /\ pc = "idle" /\ sent < MaxReq
  /\ loadQ' = Append(loadQ, id)
  /\ sent' = sent + 1
  /\ ev' = NoEv
  /\ UNCHANGED <<saves, save_dir, last_saved, current_save, data, fs, tasks,
                 saveQ, deleteQ, recentQ, changed, loaded, cfgFile, pc,
                 allocated, removed>>

SendDelete(id) ==
  /\ pc = "idle" /\ sent < MaxReq
  /\ deleteQ' = Append(deleteQ, id)
  /\ sent' = sent + 1
  /\ ev' = NoEv
  /\ UNCHANGED <<saves, save_dir, last_saved, current_save, data, fs, tasks,
                 saveQ, loadQ, recentQ, changed, loaded, cfgFile, pc,
                 allocated, removed>>

SendLoadRecent ==
  /\ pc = "idle" /\ sent < MaxReq
  /\ ~recentQ
  /\ recentQ' = TRUE
  /\ sent' = sent + 1
  /\ ev' = NoEv
  /\ UNCHANGED <<saves, save_dir, last_saved, current_save, data, fs, tasks,
                 saveQ, loadQ, deleteQ, changed, loaded, cfgFile, pc,
                 allocated, removed>>

\* the application changes its save state between two systems
HostMutate(d) ==
  /\ pc = "idle"
  /\ d # data
  /\ data' = d
  /\ ev' = NoEv
  /\ UNCHANGED <<saves, save_dir, last_saved, current_save, fs, tasks, saveQ,
                 loadQ, deleteQ, recentQ, changed, loaded, cfgFile, pc, sent,
                 allocated, removed>>

\* ------------------------------------------------------- message batches
\* a system that handles the first message of its batch and drops the others
RestDropped(q) == <<>>

\* `for m in reader.read()`: after one iteration the loop goes on with the
\* messages behind the one it handled, whatever that iteration did
Rest(q) == Tail(q)

\* ------------------------------------------------------------ EncryptSave
\* save_to with the encoding error swallowed: Ok whatever happened
SaveToSwallowsError(ts, d, path, encOk, slot, moved) ==
  [ok |-> TRUE,
   tasks |-> IF encOk THEN Append(ts, Task(path, Encode(d), slot, moved))
                      ELSE ts]

\* EncryptSave::save_to (not wasm32): encode and encrypt, then spawn the
\* detached write;
\* Err only when encoding fails, the write's outcome never comes back.
\* The task owns its path and bytes; slot and moved are history.
SaveTo(ts, d, path, encOk, slot, moved) ==
  IF encOk
    THEN [ok |-> TRUE, tasks |-> Append(ts, Task(path, Encode(d), slot, moved))]
    ELSE [ok |-> FALSE, tasks |-> ts]

\* load_from with its error ignored by the caller
LoadFromIgnoresError(d, files, path, ioOk) ==
  [ok |-> TRUE,
   data |-> IF files[path] # NoFile /\ ioOk /\ Decodable(files[path])
              THEN Decode(files[path]) ELSE d]

\* load_from that resets *self to T::default() when reading or decoding fails
LoadFromClobbers(d, files, path, ioOk) ==
  IF files[path] # NoFile /\ ioOk /\ Decodable(files[path])
    THEN [ok |-> TRUE, data |-> Decode(files[path])]
    ELSE [ok |-> FALSE, data |-> 0]

\* EncryptSave::load_from: read, decrypt, decode into *self
LoadFrom(d, files, path, ioOk) ==
  IF files[path] # NoFile /\ ioOk /\ Decodable(files[path])
    THEN [ok |-> TRUE, data |-> Decode(files[path])]
    ELSE [ok |-> FALSE, data |-> d]

\* remove_file with its error ignored by the caller
RemoveFileIgnoresError(files, path, ioOk) ==
  [ok |-> TRUE,
   fs |-> IF ioOk THEN [files EXCEPT ![path] = NoFile] ELSE files]

\* std::fs::remove_file
RemoveFile(files, path, ioOk) ==
  IF files[path] # NoFile /\ ioOk
    THEN [ok |-> TRUE, fs |-> [files EXCEPT ![path] = NoFile]]
    ELSE [ok |-> FALSE, fs |-> files]

\* ------------------------------------------------------------ save
\* a lookup that falls back to a default path for a key that is not there
GetOrDefault(s, key) ==
  [some |-> TRUE, path |-> IF key \in DOMAIN s THEN s[key] ELSE 1]

\* HashMap::get: Some(path) or None
Get(s, key) ==
  IF key \in DOMAIN s THEN [some |-> TRUE, path |-> s[key]]
                      ELSE [some |-> FALSE, path |-> 0]

\* new_key without the + 1
NewKeyNoIncrement(s) ==
  IF DOMAIN s = {} THEN 1 ELSE SetMax(DOMAIN s) % U32Mod

\* line 153: new_key, in u32 arithmetic as a release build computes it.  The
\* runs of Spec stay below the width, so the sum never wraps there.
NewKey(s) ==
  IF DOMAIN s = {} THEN 1 ELSE (SetMax(DOMAIN s) + 1) % U32Mod

\* line 153, max_key + 1 with max_key == u32::MAX: the sum does not fit
Overflows(s) == DOMAIN s # {} /\ SetMax(DOMAIN s) = U32Mod - 1

\* HashMap::insert
Insert(s, key, name) ==
  [k \in DOMAIN s \cup {key} |-> IF k = key THEN name ELSE s[k]]

\* HashMap::remove
Remove(s, key) == [k \in DOMAIN s \ {key} |-> s[k]]

\* save_dir.join(saved_path): the path a Save or Load of a stored name uses
SlotPath(dir, name) == Join(dir, name)

\* Save(0) that forgets setting_changed.write
NotifyNewForgotten(c) == c

\* GameSettingChanged messages after a Save(0) that succeeded (line 157)
NotifyNew(c) == c + 1

\* Save(id) that writes GameSettingChanged as Save(0) does
NotifyResaveAlways(c) == c + 1

\* GameSettingChanged messages after a Save(id), id # 0, that succeeded
NotifyResave(c) == c

Event(op, id, name, good) ==
  [op |-> op, id |-> id, name |-> name, good |-> good, taskMoved |-> FALSE,
   task |-> NoTask, pre |-> Snapshot]

\* one iteration of the loop of save, branch save_id == 0.  checked says
\* whether the build checks arithmetic overflow (debug) or wraps (release):
\* at line 153 a checked build panics once save_to has returned Ok, and the
\* panic ends the program with the write already dispatched.
SaveNew(file_name, encOk, checked) ==
  LET saved_path == Join(save_dir, file_name)
      new_key == NewKey(saves)
      r == SaveTo(tasks, data, saved_path, encOk, new_key, TRUE)
  IN /\ tasks' = r.tasks
     /\ IF r.ok /\ Overflows(saves) /\ checked
          THEN /\ ev' = Event("panic", 0, file_name, encOk)
               /\ UNCHANGED <<saves, last_saved, current_save, changed,
                              allocated>>
          ELSE /\ IF r.ok
                    THEN /\ saves' = Insert(saves, new_key, file_name)
                         /\ last_saved' = new_key
                         /\ current_save' = new_key
                         /\ changed' = NotifyNew(changed)
                         /\ allocated' = Append(allocated, new_key)
                    ELSE UNCHANGED <<saves, last_saved, current_save, changed,
                                     allocated>>
               /\ ev' = Event("save", 0, IF encOk THEN file_name ELSE 0, encOk)

\* one iteration of the loop of save, branch save_id != 0
SaveExisting(save_id, encOk) ==
  LET got == Get(saves, save_id) IN
  IF got.some
    THEN LET saved_path == SlotPath(save_dir, got.path)
             willMove == last_saved # save_id \/ current_save # save_id
             r == SaveTo(tasks, data, saved_path, encOk, save_id, willMove)
         IN /\ tasks' = r.tasks
            /\ last_saved' = IF r.ok THEN save_id ELSE last_saved
            /\ current_save' = IF r.ok THEN save_id ELSE current_save
            /\ changed' = IF r.ok THEN NotifyResave(changed) ELSE changed
            /\ ev' = Event("save", save_id, 0, encOk)
            /\ UNCHANGED <<saves, allocated>>
    ELSE /\ ev' = Event("save", save_id, 0, TRUE)
         /\ UNCHANGED <<saves, last_saved, current_save, tasks, changed,
                        allocated>>

\* overflow checks on (debug) or off (release); the two builds differ only
\* where line 153 overflows
Builds(save_id) ==
  IF save_id = 0 /\ Overflows(saves) THEN BOOLEAN ELSE {FALSE}

\* the system save::<T>, one message of its batch per step
save ==
  /\ pc \in {"idle", "save"}
  /\ saveQ # <<>>
  /\ LET save_id == Head(saveQ) IN
       \E file_name \in random_string, encOk \in BOOLEAN,
          checked \in Builds(save_id) :
         /\ IF save_id = 0 THEN SaveNew(file_name, encOk, checked)
                            ELSE SaveExisting(save_id, encOk)
         /\ pc' = IF save_id = 0 /\ encOk /\ checked /\ Overflows(saves)
                    THEN "panicked"
                    ELSE IF Rest(saveQ) = <<>> THEN "idle" ELSE "save"
  /\ saveQ' = Rest(saveQ)
  /\ UNCHANGED <<save_dir, data, fs, loadQ, deleteQ, recentQ, loaded, cfgFile,
                 sent, removed>>

\* ------------------------------------------------------------ load
\* the body load runs for a message id and load_recent runs for last_saved
LoadSlot(op, id, ioOk) ==
  LET got == Get(saves, id) IN
  IF got.some
    THEN LET saved_path == SlotPath(save_dir, got.path)
             r == LoadFrom(data, fs, saved_path, ioOk)
         IN /\ data' = r.data
            /\ current_save' = IF r.ok THEN id ELSE current_save
            /\ ev' = Event(op, id, 0, ioOk)
    ELSE /\ ev' = Event(op, id, 0, TRUE)
         /\ UNCHANGED <<data, current_save>>

\* the system load::<T>, one message of its batch per step
load ==
  /\ pc \in {"idle", "load"}
  /\ loadQ # <<>>
  /\ \E ioOk \in BOOLEAN : LoadSlot("load", Head(loadQ), ioOk)
  /\ loadQ' = Rest(loadQ)
  /\ pc' = IF Rest(loadQ) = <<>> THEN "idle" ELSE "load"
  /\ UNCHANGED <<saves, save_dir, last_saved, fs, tasks, saveQ, deleteQ,
                 recentQ, changed, loaded, cfgFile, sent, allocated, removed>>

\* the slot load_recent loads
RecentId(last) == last

\* the system load_recent::<T>: runs once when a LoadRecent message is unread
load_recent ==
  /\ pc = "idle"
  /\ recentQ
  /\ \E ioOk \in BOOLEAN : LoadSlot("load_recent", RecentId(last_saved), ioOk)
  /\ recentQ' = FALSE
  /\ UNCHANGED <<saves, save_dir, last_saved, fs, tasks, saveQ, loadQ, deleteQ,
                 changed, loaded, cfgFile, pc, sent, allocated, removed>>

\* ------------------------------------------------------------ delete
\* the path delete hands to fs::remove_file: the stored path as it is
DeletePath(dir, name) == Bare(name)

\* delete that leaves current_save alone
DeleteCurrentKept(cur, id) == cur

\* delete that leaves last_saved alone
DeleteLastSavedKept(last, id) == last

\* current_save reset only when the deleted slot is the current one
DeleteCurrentIfActive(cur, id) == IF cur = id THEN 0 ELSE cur

\* line 186
DeleteCurrent(cur, id) == 0

\* last_saved reset on every delete
DeleteLastSavedAlways(last, id) == 0

\* lines 187-189
DeleteLastSaved(last, id) == IF last = id THEN 0 ELSE last

\* remove_file unlinks the name; a task that has already created the file
\* keeps its handle, and what it writes through it no longer has a path
Unlinked(ts, path) ==
  [j \in 1..Len(ts) |->
     IF ts[j].st = "created" /\ ts[j].path = path
       THEN [ts[j] EXCEPT !.st = "unlinked"]
       ELSE ts[j]]

\* the system delete, one message of its batch per step
delete ==
  /\ pc \in {"idle", "delete"}
  /\ deleteQ # <<>>
  /\ LET saved_id == Head(deleteQ)
         got == Get(saves, saved_id)
     IN IF got.some
          THEN \E ioOk \in BOOLEAN :
                 LET r == RemoveFile(fs, DeletePath(save_dir, got.path), ioOk)
                 IN /\ fs' = r.fs
                    /\ tasks' = IF r.ok
                                  THEN Unlinked(tasks, DeletePath(save_dir, got.path))
                                  ELSE tasks
                    /\ IF r.ok
                         THEN /\ saves' = Remove(saves, saved_id)
                              /\ current_save' = DeleteCurrent(current_save, saved_id)
                              /\ last_saved' = DeleteLastSaved(last_saved, saved_id)
                              /\ removed' = removed + 1
                         ELSE UNCHANGED <<saves, current_save, last_saved, removed>>
                    /\ ev' = Event("delete", saved_id, 0, ioOk)
          ELSE /\ ev' = Event("delete", saved_id, 0, TRUE)
               /\ UNCHANGED <<saves, current_save, last_saved, fs, tasks,
                              removed>>
  /\ deleteQ' = Rest(deleteQ)
  /\ pc' = IF Rest(deleteQ) = <<>> THEN "idle" ELSE "delete"
  /\ UNCHANGED <<save_dir, data, saveQ, loadQ, recentQ, changed, loaded,
                 cfgFile, sent, allocated>>

\* ------------------------------------------------- the detached write task
RemoveAt(s, i) == SubSeq(s, 1, i - 1) \o SubSeq(s, i + 1, Len(s))

\* create_dir_all(parent) and File::create: the file exists and is empty
WriteCreate(i) ==
  /\ tasks[i].st = "spawned"
  /\ fs' = [fs EXCEPT ![tasks[i].path] = Truncated]
  /\ tasks' = [tasks EXCEPT ![i].st = "created"]
  /\ ev' = NoEv
  /\ UNCHANGED <<saves, save_dir, last_saved, current_save, data, saveQ, loadQ,
                 deleteQ, recentQ, changed, loaded, cfgFile, pc, sent,
                 allocated, removed>>

\* the tasks dispatched before task i for the same slot and path learn (as
\* history) that a write younger than theirs has completed
Overtaken(ts, i) ==
  [j \in 1..Len(ts) |->
     IF j < i /\ ts[j].path = ts[i].path /\ ts[j].slot = ts[i].slot
       THEN [ts[j] EXCEPT !.newer = <<ts[i].bytes>>]
       ELSE ts[j]]

\* write_all: the file holds the task's bytes (unless it was removed after
\* the task created it), the task ends.  The history keeps which write it
\* was when it was the last one pending.
WriteAll(i) ==
  /\ tasks[i].st \in {"created", "unlinked"}
  /\ fs' = IF tasks[i].st = "created"
             THEN [fs EXCEPT ![tasks[i].path] = tasks[i].bytes]
             ELSE fs
  /\ tasks' = RemoveAt(Overtaken(tasks, i), i)
  /\ ev' = IF Len(tasks) = 1
             THEN [NoEv EXCEPT !.op = "write_all",
                               !.task = [NoTask EXCEPT !.path = tasks[i].path,
                                                       !.slot = tasks[i].slot,
                                                       !.newer = tasks[i].newer]]
             ELSE NoEv
  /\ UNCHANGED <<saves, save_dir, last_saved, current_save, data, saveQ, loadQ,
                 deleteQ, recentQ, changed, loaded, cfgFile, pc, sent,
                 allocated, removed>>

\* create_dir_all, File::create or write_all returns Err: the task ends, the
\* error is dropped with the detached task, no state of the systems changes
WriteFail(i) ==
  /\ tasks' = RemoveAt(tasks, i)
  /\ ev' = [op |-> "write_fail", id |-> 0, name |-> 0, good |-> FALSE,
            taskMoved |-> tasks[i].moved, task |-> NoTask, pre |-> NoPre]
  /\ UNCHANGED <<saves, save_dir, last_saved, current_save, data, fs, saveQ,
                 loadQ, deleteQ, recentQ, changed, loaded, cfgFile, pc, sent,
                 allocated, removed>>

Next ==
  \/ load_config
  \/ \E id \in ReqIds : SendSave(id)
  \/ \E id \in ReqIds : SendLoad(id)
  \/ \E id \in ReqIds : SendDelete(id)
  \/ SendLoadRecent
  \/ \E d \in DataVals : HostMutate(d)
  \/ save
  \/ load
  \/ load_recent
  \/ delete
  \/ \E i \in 1..Len(tasks) : WriteCreate(i)
  \/ \E i \in 1..Len(tasks) : WriteAll(i)
  \/ \E i \in 1..Len(tasks) : WriteFail(i)

Spec == Init /\ [][Next]_vars

\* ------------------------------------------------ at the top of the id range
\* a settings file whose table has reached the largest slot id
WrapSaves == [k \in {U32Mod - 1} |-> 1]

WrapCfgFiles ==
  {[kind |-> "valid",
    config |-> [saves |-> WrapSaves, save_dir |-> d,
                last_saved |-> U32Mod - 1]] : d \in Dirs}

InitWrap == InitFrom(WrapCfgFiles)

\* the same program, started on such a settings file
SpecWrap == InitWrap /\ [][Next]_vars

\* ================================================================ claims
\* The step just taken, read from the history variable ev.
SaveStep == ev.op = "save"
SaveNewOk == SaveStep /\ ev.id = 0 /\ ev.good
SaveKnown == SaveStep /\ ev.id # 0 /\ ev.id \in DOMAIN ev.pre.saves
SaveUnknown == SaveStep /\ ev.id # 0 /\ ev.id \notin DOMAIN ev.pre.saves

TableSame == saves = ev.pre.saves
PointersSame ==
  /\ last_saved = ev.pre.last_saved
  /\ current_save = ev.pre.current_save

\* the write dispatched by the step: one more task, for these bytes and path
Dispatched(path) ==
  /\ Len(tasks) = Len(ev.pre.tasks) + 1
  /\ SubSeq(tasks, 1, Len(ev.pre.tasks)) = ev.pre.tasks
  /\ tasks[Len(tasks)].path = path
  /\ tasks[Len(tasks)].bytes = Encode(ev.pre.data)
  /\ tasks[Len(tasks)].st = "spawned"

\* C1: a successful Save(0) allocates (maximum key of the table) + 1, or 1
\* when the table is empty, inserts it with the generated file name, sets
\* last_saved and current_save to it and writes exactly one GameSettingChanged;
\* every other table entry is as before.
C1_SaveNewAllocates ==
  SaveNewOk =>
    LET old == ev.pre.saves
        new_id == IF DOMAIN old = {} THEN 1 ELSE SetMax(DOMAIN old) + 1
    IN /\ new_id \notin DOMAIN old
       /\ DOMAIN saves = DOMAIN old \cup {new_id}
       /\ saves[new_id] = ev.name
       /\ \A k \in DOMAIN old : saves[k] = old[k]
       /\ last_saved = new_id
       /\ current_save = new_id
       /\ changed = ev.pre.changed + 1
       /\ Dispatched(Join(save_dir, ev.name))

C1_Witness == SaveNewOk /\ DOMAIN ev.pre.saves # {} /\ ev.pre.last_saved # 0

StrictlyIncreasing(seq) ==
  \A i, j \in 1..Len(seq) : i < j => seq[i] < seq[j]

\* C2: in a run of Save(0) requests (no entry removed), every allocated id is
\* greater than all ids allocated before it and than every id the table
\* started with, hence unused before; after N successful Save(0) the table has
\* N keys more than it started with: exactly N from an empty table.
C2_FreshIncreasingIds ==
  (removed = 0 /\ pc # "startup") =>
    /\ StrictlyIncreasing(allocated)
    /\ \A i \in 1..Len(allocated) : \A k \in DOMAIN StartSaves : allocated[i] > k
    /\ DOMAIN saves = DOMAIN StartSaves \cup {allocated[i] : i \in 1..Len(allocated)}
    /\ Cardinality(DOMAIN saves) = Cardinality(DOMAIN StartSaves) + Len(allocated)

C2_Witness ==
  /\ removed = 0
  /\ DOMAIN StartSaves = {}
  /\ Len(allocated) = 2
  /\ Cardinality(DOMAIN saves) = 2

\* C3: Save(id), id # 0, for an id that is not in the table changes nothing:
\* table, last_saved, current_save, no write dispatched, no notification.
C3_SaveUnknownNoop ==
  SaveUnknown =>
    /\ TableSame
    /\ PointersSame
    /\ tasks = ev.pre.tasks
    /\ changed = ev.pre.changed
    /\ fs = ev.pre.fs

C3_Witness == SaveUnknown /\ DOMAIN saves # {} /\ ev.pre.current_save # 0

\* C4: a successful Save(id), id # 0 and in the table, dispatches the write to
\* the path stored for id, sets last_saved and current_save to id, leaves the
\* table as it is and writes no GameSettingChanged.
C4_ResaveKeepsTable ==
  (SaveKnown /\ ev.good) =>
    /\ Dispatched(Join(save_dir, ev.pre.saves[ev.id]))
    /\ last_saved = ev.id
    /\ current_save = ev.id
    /\ TableSame
    /\ changed = ev.pre.changed

C4_Witness ==
  SaveKnown /\ ev.good /\ ev.pre.last_saved # ev.id /\ ev.pre.current_save # ev.id

\* a Save request that found its slot (or asks for a new one)
SaveAttempt == SaveStep /\ (ev.id = 0 \/ ev.id \in DOMAIN ev.pre.saves)

\* C5 (as amended): for both Save branches, when encoding fails (save_to
\* returns Err) the table, last_saved and current_save are as before the
\* request: no entry inserted, no pointer moved.
C5_EncodeFailureKeepsState ==
  (SaveAttempt /\ ~ev.good) =>
    /\ TableSame
    /\ PointersSame
    /\ tasks = ev.pre.tasks
    /\ changed = ev.pre.changed

C5_Witness ==
  SaveAttempt /\ ~ev.good /\ ev.id # 0 /\ ev.pre.current_save # ev.id

\* C5 (as claimed): also when the file write of the request fails, the
\* request has left the table and both pointers as they were before it.
C5_WriteFailureKeepsState ==
  /\ (SaveAttempt /\ ~ev.good) => (TableSame /\ PointersSame)
  /\ ev.op = "write_fail" => ~ev.taskMoved
\* the file of slot id as Load reads it, in the state before the step
\* (load and load_recent leave the file system alone)
SlotFile(id) == ev.pre.fs[Join(save_dir, ev.pre.saves[id])]

\* the load of slot id succeeded: id in the table, file read, decrypted, decoded
LoadSucceeded(id) ==
  /\ id \in DOMAIN ev.pre.saves
  /\ ev.good
  /\ SlotFile(id) # NoFile
  /\ Decodable(SlotFile(id))

\* C6 (as amended): after Load(id), current_save is id when the load
\* succeeded and keeps its value from before the call when it failed or id is
\* not in the table (a value that may itself be id); the table and last_saved
\* are unchanged in every case.
C6_LoadSetsCurrentOnSuccess ==
  ev.op = "load" =>
    /\ LoadSucceeded(ev.id) => current_save = ev.id
    /\ ~LoadSucceeded(ev.id) => current_save = ev.pre.current_save
    /\ TableSame
    /\ last_saved = ev.pre.last_saved

C6_Witness ==
  /\ ev.op = "load"
  /\ LoadSucceeded(ev.id)
  /\ ev.pre.current_save # ev.id
  /\ ev.pre.last_saved # ev.id

\* C6 (as claimed): after Load(id), current_save = id if and only if the load
\* succeeded.
C6_CurrentIsIdIffSucceeded ==
  ev.op = "load" => (current_save = ev.id <=> LoadSucceeded(ev.id))

\* Delete(id) found id in the table
DeleteFound == ev.op = "delete" /\ ev.id \in DOMAIN ev.pre.saves

\* remove_file returned Ok for the path delete gave it
FileRemoved ==
  /\ ev.good
  /\ ev.pre.fs[DeletePath(save_dir, ev.pre.saves[ev.id])] # NoFile

\* C7: a Delete(id) that takes effect (id in the table, file removed) removes
\* id from the table and sets current_save to 0 whether or not id was the
\* current save; every other entry is as before.
C7_DeleteClearsCurrent ==
  (DeleteFound /\ FileRemoved) =>
    /\ DOMAIN saves = DOMAIN ev.pre.saves \ {ev.id}
    /\ \A k \in DOMAIN saves : saves[k] = ev.pre.saves[k]
    /\ current_save = 0

C7_Witness ==
  /\ DeleteFound /\ FileRemoved
  /\ ev.pre.current_save # 0
  /\ ev.pre.current_save # ev.id
  /\ DOMAIN saves # {}

\* C8: a Delete(id) that takes effect sets last_saved to 0 when id was
\* last_saved and leaves last_saved as it was otherwise.
C8_DeleteLastSaved ==
  (DeleteFound /\ FileRemoved) =>
    /\ ev.id = ev.pre.last_saved => last_saved = 0
    /\ ev.id # ev.pre.last_saved => last_saved = ev.pre.last_saved

C8_Witness ==
  /\ DeleteFound /\ FileRemoved
  /\ ev.pre.last_saved # 0
  /\ ev.pre.last_saved # ev.id

\* C9: when Delete(id) finds id but remove_file fails, the entry stays and
\* current_save and last_saved are unchanged; when id is not in the table,
\* Delete(id) changes nothing.
C9_DeleteFailureKeepsEntry ==
  /\ (DeleteFound /\ ~FileRemoved) =>
       /\ TableSame
       /\ PointersSame
  /\ (ev.op = "delete" /\ ~DeleteFound) =>
       /\ TableSame
       /\ PointersSame
       /\ fs = ev.pre.fs
       /\ tasks = ev.pre.tasks
       /\ changed = ev.pre.changed
       /\ data = ev.pre.data

C9_Witness ==
  /\ DeleteFound /\ ~FileRemoved
  /\ ev.pre.fs[DeletePath(save_dir, ev.pre.saves[ev.id])] # NoFile
  /\ ev.pre.current_save = ev.id

\* C10: LoadRecent does what Load(last_saved) does; when last_saved is 0 or
\* not a key of the table it changes nothing: current_save, table, last_saved
\* and the application state are as before.
C10_LoadRecentIsLoadLastSaved ==
  ev.op = "load_recent" =>
    LET id == ev.pre.last_saved IN
    /\ LoadSucceeded(id) =>
         /\ current_save = id
         /\ data = Decode(SlotFile(id))
    /\ ~LoadSucceeded(id) =>
         /\ current_save = ev.pre.current_save
         /\ data = ev.pre.data
    /\ (id = 0 \/ id \notin DOMAIN ev.pre.saves) =>
         /\ current_save = ev.pre.current_save
         /\ data = ev.pre.data
    /\ TableSame
    /\ last_saved = ev.pre.last_saved
    /\ fs = ev.pre.fs

C10_Witness ==
  /\ ev.op = "load_recent"
  /\ ev.pre.last_saved = 0
  /\ removed > 0

\* A step of the loop of the system op took the oldest message of the batch,
\* left the ones behind it in their order, and the loop goes on exactly when
\* a message remains.
BatchStep(op, before, after) ==
  ev.op = op =>
    /\ before # <<>>
    /\ ev.id = Head(before)
    /\ after = Tail(before)
    /\ pc = (IF after = <<>> THEN "idle" ELSE op)

\* C11: within one run of save, load or delete the messages of the batch are
\* handled oldest first and every one of them is handled: each step consumes
\* the head of the queue whatever its outcome (unknown id, encoding or I/O
\* failure), and the loop is left only when the queue is empty, so a failing
\* request never keeps the later ones of the batch from being handled.
C11_BatchFifoComplete ==
  /\ BatchStep("save", ev.pre.saveQ, saveQ)
  /\ BatchStep("load", ev.pre.loadQ, loadQ)
  /\ BatchStep("delete", ev.pre.deleteQ, deleteQ)
  /\ pc = "save" => saveQ # <<>>
  /\ pc = "load" => loadQ # <<>>
  /\ pc = "delete" => deleteQ # <<>>

\* the first Save of a batch of two failed to encode and changed nothing, and
\* the loop of save goes on with the second one
C11_Witness ==
  /\ SaveStep
  /\ ~ev.good
  /\ Len(ev.pre.saveQ) = 2
  /\ saveQ = Tail(ev.pre.saveQ)
  /\ pc = "save"
  /\ TableSame /\ PointersSame

\* the step was an iteration of one of the four systems of the slot manager
HandlerStep == ev.op \in {"save", "load", "load_recent", "delete"}

\* the step changed what the settings file is meant to hold
RecordMutated ==
  /\ HandlerStep
  /\ \/ saves # ev.pre.saves
     \/ last_saved # ev.pre.last_saved

\* C12: every step that mutates the persisted record (an insert into the slot
\* table, a removal from it, a change of last_saved) writes a
\* GameSettingChanged message, the only thing that makes save_config run.
\* The message is written nowhere but in the mutating system itself, so a
\* mutation that is followed by one writes it in its own step.
C12_MutationNotified ==
  RecordMutated => changed > ev.pre.changed

\* the settings file could not be opened or did not parse
ConfigUnreadable == cfgFile.kind \in {"missing", "garbage"}

\* C13: when load_config fails at startup (settings file missing or not
\* parseable) the record in memory is still SaveConfig::default() once the
\* system has run, the program goes on to its idle state and serves requests
\* as usual, and GameSettingLoaded is written only by a load that succeeded
\* (never more than once).
C13_StartupLoadFailure ==
  /\ (pc # "startup" /\ sent = 0 /\ ConfigUnreadable) =>
       /\ saves = DefaultConfig.saves
       /\ save_dir = DefaultConfig.save_dir
       /\ last_saved = DefaultConfig.last_saved
       /\ pc = "idle"
  /\ ConfigUnreadable => loaded = 0
  /\ loaded > 0 => cfgFile.kind = "valid" /\ pc # "startup" /\ loaded = 1
  /\ (pc # "startup" /\ cfgFile.kind = "valid") => loaded = 1

\* after a failed startup load the program served a Save(0)
C13_Witness ==
  /\ cfgFile.kind = "garbage"
  /\ loaded = 0
  /\ SaveNewOk
  /\ saves = Insert(DefaultConfig.saves, 1, ev.name)

DeleteStep == ev.op = "delete"

\* the file Save(id) writes and Load(id) reads for the slot the step is about
SlotFilePath == SlotPath(save_dir, ev.pre.saves[ev.id])

\* C14: a Delete(id) that finds its slot and whose remove_file meets no I/O
\* error removes the file that Save(id) writes and Load(id) reads, the stored
\* name joined to save_dir, whether save_dir is empty or not: when that file
\* was there before the step it is gone after it and the entry is removed.
C14_DeleteRemovesSlotFile ==
  (/\ DeleteStep
   /\ ev.id \in DOMAIN ev.pre.saves
   /\ ev.good
   /\ ev.pre.fs[SlotFilePath] # NoFile) =>
     /\ fs[SlotFilePath] = NoFile
     /\ ev.id \notin DOMAIN saves

\* C15: in every reachable state every key of the slot table is greater than
\* 0, also after a Save(0) handled while the largest key of the table is the
\* largest value a slot id can hold.
C15_KeysPositive == \A k \in DOMAIN saves : k > 0

\* the file system once every write of ts has completed, in dispatch order
RECURSIVE Flush(_, _)
Flush(files, ts) ==
  IF ts = <<>> THEN files
  ELSE Flush(IF Head(ts).st = "unlinked"
               THEN files
               ELSE [files EXCEPT ![Head(ts).path] = Head(ts).bytes],
             Tail(ts))

\* the files the step would have met had every write dispatched before it
\* already completed
SettledFs == Flush(ev.pre.fs, ev.pre.tasks)

\* C16: the moment at which a dispatched write completes does not show in the
\* decisions of the systems: a Load, LoadRecent or Delete step leaves the slot
\* table, last_saved and current_save as the same step leaves them when every
\* write dispatched before it has already completed (same request, same I/O
\* errors).
C16_WriteTimingInvisible ==
  /\ (ev.op \in {"load", "load_recent"} /\ ev.id \in DOMAIN ev.pre.saves) =>
       LET r == LoadFrom(ev.pre.data, SettledFs,
                         SlotPath(save_dir, ev.pre.saves[ev.id]), ev.good)
       IN /\ current_save = IF r.ok THEN ev.id ELSE ev.pre.current_save
          /\ saves = ev.pre.saves
          /\ last_saved = ev.pre.last_saved
  /\ (ev.op = "delete" /\ ev.id \in DOMAIN ev.pre.saves) =>
       LET r == RemoveFile(SettledFs,
                           DeletePath(save_dir, ev.pre.saves[ev.id]), ev.good)
       IN /\ saves = IF r.ok THEN Remove(ev.pre.saves, ev.id) ELSE ev.pre.saves
          /\ current_save = IF r.ok THEN DeleteCurrent(ev.pre.current_save, ev.id)
                                    ELSE ev.pre.current_save
          /\ last_saved = IF r.ok THEN DeleteLastSaved(ev.pre.last_saved, ev.id)
                                  ELSE ev.pre.last_saved

\* C17: whatever the order of the systems, current_save is 0 or a key of the
\* slot table, in every state from the start of the program on (so after
\* every Save, Load, LoadRecent and Delete step): save and load set it to a key
\* that is in the table, and every delete that removes a key resets it to 0.
C17_CurrentSaveValid == current_save = 0 \/ current_save \in DOMAIN saves

\* in a run started from the default record a Delete removed the slot that
\* current_save pointed to
C17_Witness ==
  /\ DeleteStep
  /\ cfgFile.kind = "missing"
  /\ ev.id \in DOMAIN ev.pre.saves
  /\ ev.id \notin DOMAIN saves
  /\ ev.pre.current_save = ev.id
  /\ current_save = 0

\* C18: last_saved is 0 or a key of the slot table, in every state from the
\* start of the program on (so after every Save and Delete step): save sets it
\* to a key of the table and delete resets it when it removes that key.
C18_LastSavedValid == last_saved = 0 \/ last_saved \in DOMAIN saves

\* in a run started from the default record a Delete removed the slot that
\* last_saved pointed to
C18_Witness ==
  /\ DeleteStep
  /\ cfgFile.kind = "missing"
  /\ ev.id \in DOMAIN ev.pre.saves
  /\ ev.id \notin DOMAIN saves
  /\ ev.pre.last_saved = ev.id
  /\ last_saved = 0
  /\ tasks = <<>>

\* the last pending write has just completed
LastWriteDone == ev.op = "write_all" /\ tasks = <<>>

\* C19: once a Delete has removed a slot and every write dispatched before it
\* has completed, no file exists at the path of the removed slot: when the
\* last pending write completes and the slot it was dispatched for is no
\* longer in the table (nor its path used by another slot), there is no file
\* at its path.
C19_DeletedFileStaysDeleted ==
  (/\ LastWriteDone
   /\ removed > 0
   /\ ev.task.slot \notin DOMAIN saves
   /\ \A k \in DOMAIN saves : SlotPath(save_dir, saves[k]) # ev.task.path) =>
    fs[ev.task.path] = NoFile

\* C20: when two Saves of the same slot have both had their writes completed
\* and no write is pending, the slot's file holds the bytes of the later Save:
\* a write that completes after a younger write of the same slot and path (in
\* newer) leaves the younger write's bytes in the file.
C20_LaterSaveWins ==
  (LastWriteDone /\ ev.task.newer # <<>>) =>
    fs[ev.task.path] = ev.task.newer[1]

====
